---- MODULE Spec2Model ----
(***************************************************************************)
(* Client-side WebSocketService (src/src/services/websocket.ts) as a state  *)
(* machine.  The service's fields are the variables; every public method,   *)
(* every socket event and every timer callback is one action.  The browser  *)
(* WebSocket objects the service creates are kept in `sockets`, so events   *)
(* of a socket the service no longer holds can still reach its handlers.    *)
(***************************************************************************)
EXTENDS Integers, Sequences, FiniteSets, TLC

\* ------------------------------------------------------------------ bounds
\* Sockets the service may create in one run (new WebSocket calls).
MaxSockets == 2
\* subscribeToTiming calls in one run (caps handlerIdCounter).
MaxHandlers == 2
\* Distinct tokens Math.random() may produce for onConnectionStatus.
NumTokens == 1
\* Client sockets the relay server accepts in one run.
MaxClients == 2
\* the client with several status observers
ObserverTokens == 2
ObserverSockets == 2
\* retryWithBackoff: the largest maxRetries tried
MaxRetryCount == 4
\* Sockets and subscribeToTiming calls in a run that uses up the retry budget.
BudgetSockets == 3
BudgetHandlers == 3

\* ------------------------------------------------------- program constants
maxReconnectAttempts == 5
reconnectDelay == 1000
HeartbeatPeriod == 30000
ConnectTimeout == 5000
\* relay server (src/server.js)
HEARTBEAT_INTERVAL == 30000
BridgeMaxReconnectAttempts == 5
BridgeBaseDelay == 1000
BridgeMaxDelay == 30000

\* null / undefined
NULL == "null"
\* The sentinel identifier of the broadcast subscription.
GLOBAL == "global"
baseUrl == "ws://localhost:8000/ws/sessions"

\* Session identifiers a caller passes to subscribeToTiming.  BadSession
\* stands for an identifier that makes the URL unparsable (it holds a '#'),
\* for which the WebSocket constructor throws.
Sessions == {"S1", "S2"}
BadSession == "S#"
SubscribeIds == Sessions \cup {BadSession, GLOBAL}

Statuses == {"connected", "disconnected", "error"}

\* Handler identifiers: `timing_<n>` and the random tokens.
TimingId(n) == <<"timing", n>>
TokenId(r) == <<"rnd", r>>
TimingIds == {TimingId(n) : n \in 1..MaxHandlers}
TokenIds == {TokenId(r) : r \in 1..NumTokens}
UnknownId == <<"unknown", 0>>
AnyIds == TimingIds \cup TokenIds \cup {UnknownId}

VARIABLES
  ws,                        \* index into sockets of this.ws, 0 for null
  sockets,                   \* every WebSocket created so far
  messageHandlers,           \* Map keys in insertion order
  connectionStatusHandlers,  \* Map keys in insertion order
  heartbeatInterval,         \* TRUE when the handle is not null
  connectionTimeout,         \* TRUE when the handle is not null
  handlerIdCounter,
  connectionState,
  timingServiceState,
  lastConnectionStatus,
  currentSessionId,
  reconnectAttempts,
  isConnecting,
  pendingSubscriptions,      \* Set<string> in insertion order
  timers,                    \* the runtime's armed timers
  out,                       \* what the last step did (observation only)
  \* --- relay server (src/server.js)
  clients,                   \* every client socket accepted so far
  connectionInfo,            \* per client: its record, or NULL if rejected
  activeConnections,         \* keys of the registry Map
  tsl,                       \* every upstream socket created so far
  bridgeTimers,              \* the server's armed timers
  bout,                      \* what the last server step did
  \* --- retryWithBackoff (src/src/services/api.ts)
  retry                      \* one invocation of retryWithBackoff

vars == <<ws, sockets, messageHandlers, connectionStatusHandlers,
          heartbeatInterval, connectionTimeout, handlerIdCounter,
          connectionState, timingServiceState, lastConnectionStatus,
          currentSessionId, reconnectAttempts, isConnecting,
          pendingSubscriptions, timers, out>>

bvars == <<clients, connectionInfo, activeConnections, tsl, bridgeTimers,
           bout>>

\* ----------------------------------------------------------------- helpers
Range(q) == {q[i] : i \in 1..Len(q)}

RECURSIVE Pow2(_)
Pow2(n) == IF n <= 0 THEN 1 ELSE 2 * Pow2(n - 1)

\* q without the entries equal to id
RECURSIVE Without(_, _)
Without(q, id) ==
  IF q = <<>> THEN <<>>
  ELSE IF Head(q) = id THEN Without(Tail(q), id)
  ELSE <<Head(q)>> \o Without(Tail(q), id)

\* Map.set / Set.add on an insertion-ordered collection of keys
MapSet(q, id) == IF id \in Range(q) THEN q ELSE Append(q, id)
\* Map.delete
MapDelete(q, id) == Without(q, id)

\* JSON.stringify of an envelope, and JSON.parse of a frame.  A frame is
\* either the text of an envelope or text that is no JSON at all.
Envelope(type, sessionId, status) ==
  [type |-> type, sessionId |-> sessionId, status |-> status]
Stringify(obj) == <<"json", obj>>
Garbage == <<"text", "not json">>
Parses(frame) == frame[1] = "json"
Parse(frame) == frame[2]

\* Frames the server side may deliver.
InboundFrames ==
  {Stringify(Envelope(t, NULL, NULL)) : t \in {"pong", "error", "ping"}}
  \cup {Stringify(Envelope("connection", NULL, st)) : st \in Statuses}
  \cup {Stringify(Envelope(t, "S1", NULL)) : t \in {"result", "session_update"}}
  \cup {Garbage}

getWebSocketUrl(sessionId) ==
  IF sessionId = GLOBAL THEN <<baseUrl>> ELSE <<baseUrl, sessionId>>

\* new WebSocket(url) throws a SyntaxError for a URL it cannot use.
UrlThrows(url) == Len(url) = 2 /\ url[2] = BadSession

\* -------------------------------------------------------- the state record
\* The methods are written as functions from a record of the fields (plus
\* the effects of the running step) to such a record, so that one method can
\* call another and an exception can cut a method short.
Fields ==
  [ws |-> ws, sockets |-> sockets, messageHandlers |-> messageHandlers,
   connectionStatusHandlers |-> connectionStatusHandlers,
   heartbeatInterval |-> heartbeatInterval,
   connectionTimeout |-> connectionTimeout,
   handlerIdCounter |-> handlerIdCounter,
   connectionState |-> connectionState,
   timingServiceState |-> timingServiceState,
   lastConnectionStatus |-> lastConnectionStatus,
   currentSessionId |-> currentSessionId,
   reconnectAttempts |-> reconnectAttempts, isConnecting |-> isConnecting,
   pendingSubscriptions |-> pendingSubscriptions, timers |-> timers,
   sent |-> <<>>, notified |-> <<>>, delivered |-> <<>>, created |-> <<>>,
   closed |-> <<>>, armed |-> <<>>, caught |-> <<>>, threw |-> FALSE]

\* The runtime's timers.  setTimeout handles of the reconnect callbacks are
\* not kept by the service, so these timers cannot be cancelled: `reconnect`
\* counts the armed ones (`stale` those among them that a disconnect() found
\* armed).  The connect timeout and the heartbeat interval are armed or not.
\* `armed` records, for the step that arms a timer, its kind and delay.
NoTimers == [reconnect |-> 0, stale |-> 0, timeout |-> FALSE, heartbeat |-> FALSE]
Arm(s, kind, delay) == [s EXCEPT !.armed = Append(@, <<kind, delay>>)]

\* ws.readyState === WebSocket.OPEN
IsOpen(s) == s.ws # 0 /\ s.sockets[s.ws].rs = "OPEN"

\* ------------------------------------------------- private service methods
\* notifyConnectionStatus: the observers are called in insertion order and
\* nothing catches what one of them throws (T: the observers that throw
\* when called in this step).
Notify(s, status, T) ==
  LET hs == s.connectionStatusHandlers
      throwers == {i \in 1..Len(hs) : hs[i] \in T}
      first == IF throwers = {} THEN 0
               ELSE CHOOSE i \in throwers : \A j \in throwers : i <= j
      n == IF first = 0 THEN Len(hs) ELSE first
  IN [s EXCEPT !.notified = @ \o [i \in 1..n |-> <<hs[i], status>>],
               !.threw = (first # 0)]

\* the reconnect scheduling shared by handleConnectionError and handleClose
ScheduleReconnect(s) ==
  LET n == s.reconnectAttempts + 1
  IN Arm([s EXCEPT !.reconnectAttempts = n, !.timers.reconnect = @ + 1],
         "reconnect", reconnectDelay * Pow2(n - 1))

ErrorFlags(s) ==
  [s EXCEPT !.connectionState = FALSE, !.timingServiceState = FALSE,
            !.lastConnectionStatus = "error"]

handleConnectionError(s, T) ==
  LET s1 == Notify(ErrorFlags(s), "error", T)
  IN IF s1.threw THEN s1
     ELSE IF s1.reconnectAttempts < maxReconnectAttempts
          THEN ScheduleReconnect(s1)
          ELSE Notify([s1 EXCEPT !.lastConnectionStatus = "error"], "error", T)

CloseFlags(s) ==
  [s EXCEPT !.connectionState = FALSE, !.timingServiceState = FALSE,
            !.lastConnectionStatus = "disconnected"]

handleClose(s, T) ==
  LET s1 == Notify(CloseFlags(s), "disconnected", T)
  IN IF s1.threw THEN s1
     ELSE IF s1.reconnectAttempts < maxReconnectAttempts
          THEN ScheduleReconnect(s1)
          ELSE s1

sendSubscription(s, sessionId) ==
  IF IsOpen(s)
  THEN [s EXCEPT !.sent = Append(@, <<s.ws,
                   Stringify(Envelope("subscribe", sessionId, NULL))>>)]
  ELSE [s EXCEPT !.pendingSubscriptions = MapSet(@, sessionId)]

\* clearInterval / clearTimeout, called only on a handle that is not null
ClearHeartbeat(s) ==
  IF s.heartbeatInterval THEN [s EXCEPT !.timers.heartbeat = FALSE] ELSE s

ClearTimeout(s) ==
  IF s.connectionTimeout THEN [s EXCEPT !.timers.timeout = FALSE] ELSE s

startHeartbeat(s) ==
  Arm([ClearHeartbeat(s) EXCEPT !.heartbeatInterval = TRUE,
                                !.timers.heartbeat = TRUE],
      "heartbeat", HeartbeatPeriod)

clearIntervals(s) ==
  [ClearTimeout(ClearHeartbeat(s)) EXCEPT !.heartbeatInterval = FALSE,
                                          !.connectionTimeout = FALSE]

\* handleOpen as it would be if the open event marked the feed live
OpenFlagsLive(s) ==
  [s EXCEPT !.connectionState = TRUE, !.reconnectAttempts = 0,
            !.timingServiceState = TRUE, !.lastConnectionStatus = "connected"]

OpenFlags(s) ==
  [s EXCEPT !.connectionState = TRUE, !.reconnectAttempts = 0,
            !.lastConnectionStatus = "connected"]

handleOpen(s, T) ==
  LET s1 == Notify(OpenFlags(s), "connected", T)
      s2 == startHeartbeat([s1 EXCEPT !.isConnecting = FALSE])
  IN IF s1.threw THEN s1
     ELSE IF s2.currentSessionId # NULL
          THEN sendSubscription(s2, s2.currentSessionId)
          ELSE s2

\* WebSocket.close(): a socket that is connecting or open starts closing;
\* on a closing or closed socket the call does nothing.
SocketCloseCall(s, k) ==
  [s EXCEPT !.closed = Append(@, k),
            !.sockets[k].rs = IF @ \in {"CONNECTING", "OPEN"} THEN "CLOSING" ELSE @]

NewSocket == [rs |-> "CONNECTING", wasOpen |-> FALSE]

ConnectReset(s) ==
  [s EXCEPT !.connectionState = FALSE, !.timingServiceState = FALSE,
            !.lastConnectionStatus = "disconnected"]

\* the try block of connect: the socket, its wiring and the connect timeout
ConnectTry(s, T) ==
  LET url == getWebSocketUrl(s.currentSessionId)
      k == Len(s.sockets) + 1
  IN IF UrlThrows(url)
     THEN LET c == Notify(ErrorFlags(s), "error", T)
          IN IF c.threw THEN c ELSE [c EXCEPT !.isConnecting = FALSE]
     ELSE Arm([s EXCEPT !.sockets = Append(@, NewSocket),
                        !.ws = k,
                        !.created = Append(@, <<k, url>>),
                        !.connectionTimeout = TRUE,
                        !.timers.timeout = TRUE],
              "timeout", ConnectTimeout)

\* connect as it would be without the guard on an attempt in flight
connectUnguarded(s, T) ==
  IF s.currentSessionId = NULL THEN s
  ELSE LET s1 == [s EXCEPT !.isConnecting = TRUE]
           s2 == IF s1.ws # 0 THEN SocketCloseCall(s1, s1.ws) ELSE s1
           s3 == Notify(ConnectReset(clearIntervals(s2)), "disconnected", T)
       IN IF s3.threw THEN s3 ELSE ConnectTry(s3, T)

\* connect as it would be without the guard on the session identifier
connectAnySession(s, T) ==
  IF s.isConnecting THEN s
  ELSE LET s1 == [s EXCEPT !.isConnecting = TRUE]
           s2 == IF s1.ws # 0 THEN SocketCloseCall(s1, s1.ws) ELSE s1
           s3 == Notify(ConnectReset(clearIntervals(s2)), "disconnected", T)
       IN IF s3.threw THEN s3 ELSE ConnectTry(s3, T)

connect(s, T) ==
  IF s.isConnecting THEN s
  ELSE IF s.currentSessionId = NULL THEN s
  ELSE LET s1 == [s EXCEPT !.isConnecting = TRUE]
           s2 == IF s1.ws # 0 THEN SocketCloseCall(s1, s1.ws) ELSE s1
           s3 == Notify(ConnectReset(clearIntervals(s2)), "disconnected", T)
       IN IF s3.threw THEN s3 ELSE ConnectTry(s3, T)

\* the callback of the reconnect timer
ReconnectCallback(s, T) ==
  IF ~s.connectionState /\ s.currentSessionId # NULL /\ ~s.isConnecting
  THEN connect(s, T) ELSE s

\* the callback of the connect timeout
TimeoutCallback(s) ==
  IF s.ws # 0 /\ s.sockets[s.ws].rs # "OPEN"
  THEN SocketCloseCall(s, s.ws) ELSE s

\* the callback of the heartbeat interval
HeartbeatCallback(s) ==
  IF IsOpen(s)
  THEN [s EXCEPT !.sent = Append(@, <<s.ws, Stringify(Envelope("ping", NULL, NULL))>>)]
  ELSE s

\* the forEach over messageHandlers: each call is wrapped in its own try,
\* so a handler that throws (one of T) is logged and the loop goes on
Deliver(s, message, T) ==
  [s EXCEPT !.delivered = @ \o [i \in 1..Len(s.messageHandlers) |->
                                  <<s.messageHandlers[i], message>>],
            !.caught = @ \o SelectSeq(s.messageHandlers, LAMBDA h : h \in T)]

LiveFlags(s) ==
  [s EXCEPT !.timingServiceState = TRUE, !.lastConnectionStatus = "connected"]

\* the switch of ws.onmessage, inside the outer try
Dispatch(s, message, T) ==
  CASE message.type = "pong" -> Notify(LiveFlags(s), "connected", T)
    [] message.type = "error" ->
         Notify([s EXCEPT !.timingServiceState = FALSE,
                          !.lastConnectionStatus = "error"], "error", T)
    [] message.type = "connection" ->
         Notify([s EXCEPT !.timingServiceState = (message.status = "connected"),
                          !.lastConnectionStatus = message.status],
                message.status, T)
    [] message.type \in {"result", "session_update"} ->
         LET s1 == Notify(LiveFlags(s), "connected", T)
         IN IF s1.threw THEN s1 ELSE Deliver(s1, message, T)
    [] OTHER -> s

\* ws.onmessage as it would be if a frame it cannot parse were treated as
\* a connection error
onmessageStrict(s, frame, T) ==
  IF ~Parses(frame) THEN handleConnectionError(s, T)
  ELSE LET d == Dispatch(s, Parse(frame), T)
       IN IF d.threw
          THEN [d EXCEPT !.threw = FALSE,
                         !.caught = Append(@, d.notified[Len(d.notified)][1])]
          ELSE d

\* ws.onmessage: whatever is thrown inside the outer try (by JSON.parse or
\* by a status observer) is caught and logged
onmessage(s, frame, T) ==
  IF ~Parses(frame) THEN s
  ELSE LET d == Dispatch(s, Parse(frame), T)
       IN IF d.threw
          THEN [d EXCEPT !.threw = FALSE,
                         !.caught = Append(@, d.notified[Len(d.notified)][1])]
          ELSE d

\* -------------------------------------------------- public service methods
\* the resets of disconnect as they would be if the retry budget were kept
DisconnectResetKeepsBudget(s) ==
  [s EXCEPT !.isConnecting = FALSE, !.pendingSubscriptions = <<>>]

DisconnectReset(s) ==
  [s EXCEPT !.reconnectAttempts = 0, !.isConnecting = FALSE,
            !.pendingSubscriptions = <<>>]

DisconnectFinish(s) ==
  [s EXCEPT !.currentSessionId = NULL, !.messageHandlers = <<>>]

disconnect(s, T) ==
  LET s1 == DisconnectReset(clearIntervals(s))
      s2 == IF s1.ws # 0 THEN [SocketCloseCall(s1, s1.ws) EXCEPT !.ws = 0] ELSE s1
      s3 == Notify(CloseFlags(s2), "disconnected", T)
  IN IF s3.threw THEN s3 ELSE DisconnectFinish(s3)

sendMessage(s, message) ==
  IF IsOpen(s)
  THEN [s EXCEPT !.sent = Append(@, <<s.ws, Stringify(message)>>)]
  ELSE s

\* SetSession as it would be if 'global' were stored like any identifier
SetSessionAlways(s, sessionId) ==
  [s EXCEPT !.currentSessionId = sessionId]

SetSession(s, sessionId) ==
  IF sessionId # GLOBAL THEN [s EXCEPT !.currentSessionId = sessionId] ELSE s

\* subscribeToTiming as it would be if every subscribe reconnected
subscribeToTimingReconnects(s, sessionId, T) ==
  LET n == s.handlerIdCounter + 1
      s1 == [s EXCEPT !.handlerIdCounter = n,
                      !.messageHandlers = MapSet(@, TimingId(n))]
      s2 == sendSubscription(SetSession(s1, sessionId), sessionId)
  IN connect(s2, T)

subscribeToTiming(s, sessionId, T) ==
  LET n == s.handlerIdCounter + 1
      s1 == [s EXCEPT !.handlerIdCounter = n,
                      !.messageHandlers = MapSet(@, TimingId(n))]
      s2 == sendSubscription(SetSession(s1, sessionId), sessionId)
  IN IF ~IsOpen(s2) THEN connect(s2, T) ELSE s2

\* onConnectionStatus as it would be if it always reported 'disconnected'
onConnectionStatusFixed(s, messageId, T) ==
  [s EXCEPT !.connectionStatusHandlers = MapSet(@, messageId),
            !.notified = Append(@, <<messageId, "disconnected">>),
            !.threw = (messageId \in T)]

onConnectionStatus(s, messageId, T) ==
  [s EXCEPT !.connectionStatusHandlers = MapSet(@, messageId),
            !.notified = Append(@, <<messageId, s.lastConnectionStatus>>),
            !.threw = (messageId \in T)]

\* removeHandler as it would be if it emptied the observer map
removeHandlerClears(s, messageId) ==
  [s EXCEPT !.messageHandlers = MapDelete(@, messageId),
            !.connectionStatusHandlers = <<>>]

removeHandler(s, messageId) ==
  [s EXCEPT !.messageHandlers = MapDelete(@, messageId),
            !.connectionStatusHandlers = MapDelete(@, messageId)]

isConnected == connectionState /\ timingServiceState
isTimingServiceConnected == timingServiceState
getCurrentSessionId == currentSessionId

\* ----------------------------------------------------------------- actions
\* The step's result becomes the next state; `out` keeps what the step did.
CommitWithin(cap, s, op, sock, arg, ret) ==
  /\ Len(s.sockets) <= cap
  /\ ws' = s.ws
  /\ sockets' = s.sockets
  /\ messageHandlers' = s.messageHandlers
  /\ connectionStatusHandlers' = s.connectionStatusHandlers
  /\ heartbeatInterval' = s.heartbeatInterval
  /\ connectionTimeout' = s.connectionTimeout
  /\ handlerIdCounter' = s.handlerIdCounter
  /\ connectionState' = s.connectionState
  /\ timingServiceState' = s.timingServiceState
  /\ lastConnectionStatus' = s.lastConnectionStatus
  /\ currentSessionId' = s.currentSessionId
  /\ reconnectAttempts' = s.reconnectAttempts
  /\ isConnecting' = s.isConnecting
  /\ pendingSubscriptions' = s.pendingSubscriptions
  /\ timers' = s.timers
  /\ UNCHANGED <<bvars, retry>>
  /\ out' = [op |-> op, sock |-> sock, arg |-> arg, ret |-> ret,
             sent |-> s.sent, notified |-> s.notified,
             delivered |-> s.delivered, created |-> s.created,
             closed |-> s.closed, armed |-> s.armed, caught |-> s.caught,
             threw |-> s.threw]

Commit(s, op, sock, arg, ret) ==
  CommitWithin(MaxSockets, s, op, sock, arg, ret)

\* The callbacks that throw when called in a step: none, or one of them
\* (after an observer throws no later one is called in that notification).
Throwers(H) == {{}} \cup {{h} : h \in H}
Observers == Range(connectionStatusHandlers)

\* disconnect() marks the reconnect timers it finds armed; the next
\* subscribe clears the mark (bookkeeping of the model, not of the service)
Unmark(t) == [t EXCEPT !.stale = 0]
Mark(t) == [t EXCEPT !.stale = t.reconnect]

SubscribeToTiming ==
  \E sessionId \in SubscribeIds, T \in Throwers(Observers) :
    /\ handlerIdCounter < MaxHandlers
    /\ LET s == subscribeToTiming(Fields, sessionId, T)
       IN Commit([s EXCEPT !.timers = Unmark(@)], "subscribeToTiming", 0,
                 sessionId,
                 IF s.threw THEN NULL ELSE TimingId(s.handlerIdCounter))

OnConnectionStatus ==
  \E r \in 1..NumTokens, throws \in BOOLEAN :
    LET id == TokenId(r)
        s == onConnectionStatus(Fields, id, IF throws THEN {id} ELSE {})
    IN Commit(s, "onConnectionStatus", 0, id, IF s.threw THEN NULL ELSE id)

RemoveHandler ==
  \E id \in AnyIds :
    Commit(removeHandler(Fields, id), "removeHandler", 0, id, NULL)

Disconnect ==
  \E T \in Throwers(Observers) :
    Commit([disconnect(Fields, T) EXCEPT !.timers = Mark(@)],
           "disconnect", 0, NULL, NULL)

SendMessage ==
  Commit(sendMessage(Fields, Envelope("session_update", "S1", NULL)),
         "sendMessage", 0, NULL, NULL)

\* --- socket events.  Every socket ever created keeps its handlers wired.
SetReady(s, k, rs) ==
  [s EXCEPT !.sockets[k].rs = rs,
            !.sockets[k].wasOpen = (@ \/ rs = "OPEN")]

\* the open event
SocketOpen ==
  \E k \in 1..Len(sockets), T \in Throwers(Observers) :
    /\ sockets[k].rs = "CONNECTING"
    /\ Commit(handleOpen(SetReady(Fields, k, "OPEN"), T), "open", k, NULL, NULL)

\* the connection fails: an error event and then a close event, in one task
SocketFail ==
  \E k \in 1..Len(sockets), T \in Throwers(Observers) :
    /\ sockets[k].rs # "CLOSED"
    /\ LET s1 == handleConnectionError(SetReady(Fields, k, "CLOSED"), T)
           s2 == handleClose([s1 EXCEPT !.threw = FALSE], T)
       IN Commit([s2 EXCEPT !.threw = (s1.threw \/ s2.threw)],
                 "fail", k, NULL, NULL)

\* the connection closes cleanly: a close event alone
SocketClose ==
  \E k \in 1..Len(sockets), T \in Throwers(Observers) :
    /\ sockets[k].wasOpen /\ sockets[k].rs \in {"OPEN", "CLOSING"}
    /\ Commit(handleClose(SetReady(Fields, k, "CLOSED"), T),
              "close", k, NULL, NULL)

\* a message event
SocketMessage ==
  \E k \in 1..Len(sockets), frame \in InboundFrames,
     T \in Throwers(Observers \cup Range(messageHandlers)) :
    /\ sockets[k].rs = "OPEN"
    /\ Commit(onmessage(Fields, frame, T), "message", k, frame, NULL)

\* --- timers.  The socket events come at times of the network's choosing,
\* so any armed timer may be the next to fire.
FireReconnect ==
  \E stale \in BOOLEAN, T \in Throwers(Observers) :
    /\ IF stale THEN timers.stale > 0 ELSE timers.reconnect > timers.stale
    /\ LET t == [timers EXCEPT !.reconnect = @ - 1,
                               !.stale = IF stale THEN @ - 1 ELSE @]
       IN Commit(ReconnectCallback([Fields EXCEPT !.timers = t], T),
                 "reconnectTimer", 0, stale, NULL)

FireTimeout ==
  /\ timers.timeout
  /\ Commit(TimeoutCallback([Fields EXCEPT !.timers.timeout = FALSE]),
            "connectTimeout", 0, NULL, NULL)

\* an interval stays armed after it fires
FireHeartbeat ==
  /\ timers.heartbeat
  /\ Commit(HeartbeatCallback(Fields), "heartbeat", 0, NULL, NULL)

\* ------------------------------------------------------------ relay server
\* The per-client bridge of src/server.js.  A request URL is the sequence of
\* its pieces, the separator "/" being a piece of its own.
Slash == "/"
SessionUrl(id) == <<Slash, "ws", Slash, "sessions", Slash, id>>
BroadcastUrl == <<Slash, "ws", Slash, "sessions">>
TrailingSlashUrl == <<Slash, "ws", Slash, "sessions", Slash>>
RequestUrls == {SessionUrl("42"), SessionUrl("7"), BroadcastUrl, TrailingSlashUrl}

\* String.prototype.split('/')
RECURSIVE Split(_)
Split(url) ==
  IF url = <<>> THEN <<"">>
  ELSE LET rest == Split(Tail(url))
       IN IF Head(url) = Slash THEN <<"">> \o rest
          ELSE <<Head(url)>> \o Tail(rest)

\* Array.prototype.pop
Pop(q) == q[Len(q)]

\* `ws://dev-sample-api.tsl-timing.com/sessions/${sessionId}`
tslWsUrl(sessionId) ==
  <<"ws://dev-sample-api.tsl-timing.com/sessions", sessionId>>

\* A frame on the wire: its payload bytes and whether it is a binary frame.
\* JSON.stringify(...) handed to send() goes out as a text frame; a Buffer
\* (what the 'message' event of an upstream socket hands over) goes out as a
\* binary frame with the same bytes.
TextFrame(obj) == [payload |-> Stringify(obj), binary |-> FALSE]
Forwarded(data) == [payload |-> data.payload, binary |-> TRUE]

\* Data frames the timing provider may send.
UpstreamData ==
  {[payload |-> Stringify(Envelope("result", "42", NULL)), binary |-> FALSE],
   [payload |-> <<"bytes", 255>>, binary |-> TRUE]}

\* Frames a client may send to the server.
ClientFrames == {Stringify(Envelope("pong", NULL, NULL)), Garbage}

BridgeFields ==
  [clients |-> clients, connectionInfo |-> connectionInfo,
   activeConnections |-> activeConnections, tsl |-> tsl,
   bridgeTimers |-> bridgeTimers,
   sent |-> <<>>, lost |-> <<>>, created |-> <<>>, closed |-> <<>>,
   armed |-> <<>>]

\* ws.readyState === WebSocket.OPEN, for a client socket
ClientOpen(b, c) == b.clients[c].rs = "OPEN"

\* ws.send on a client socket: a socket that is closing or closed sends
\* nothing (and, with no callback given, reports nothing)
wsSend(b, c, frame) ==
  IF ClientOpen(b, c)
  THEN [b EXCEPT !.sent = Append(@, <<c, frame>>)]
  ELSE [b EXCEPT !.lost = Append(@, <<c, frame>>)]

\* ws.close() on a client socket
wsClose(b, c) ==
  [b EXCEPT !.clients[c].rs = IF @ = "OPEN" THEN "CLOSING" ELSE @]

\* tslWs.close() on an upstream socket
tslWsClose(b, u) ==
  [b EXCEPT !.closed = Append(@, u),
            !.tsl[u].rs = IF @ \in {"CONNECTING", "OPEN"} THEN "CLOSING" ELSE @]

\* connectionInfo.tslWs && connectionInfo.tslWs.readyState === WebSocket.OPEN
TslIsOpen(b, c) ==
  /\ b.connectionInfo[c].tslWs # 0
  /\ b.tsl[b.connectionInfo[c].tslWs].rs = "OPEN"

\* url as it would be if it were a variable shared by all connections
\* (the URL of the first client's session)
UpstreamUrlShared(b, c) ==
  tslWsUrl(b.connectionInfo[1].sessionId)

\* the closure's tslWsUrl
UpstreamUrl(b, c) ==
  tslWsUrl(b.connectionInfo[c].sessionId)

\* new WebSocket(tslWsUrl), kept in connectionInfo.tslWs; `wired` tells which
\* handlers are attached: those of the connection handler ("initial") or
\* those of setupTslWebSocketHandlers ("reconnect")
NewTsl(b, c, wired) ==
  LET u == Len(b.tsl) + 1
  IN [b EXCEPT !.tsl = Append(@, [owner |-> c, url |-> UpstreamUrl(b, c),
                                  rs |-> "CONNECTING", wasOpen |-> FALSE,
                                  wired |-> wired]),
               !.connectionInfo[c].tslWs = u,
               !.created = Append(@, u)]

Min(a, b) == IF a <= b THEN a ELSE b
BridgeReconnectDelay(n) == Min(BridgeBaseDelay * Pow2(n - 1), BridgeMaxDelay)

\* tslWs.on('open'), the same in both wirings
tslOnOpen(b, u) ==
  LET c == b.tsl[u].owner
  IN wsSend([b EXCEPT !.connectionInfo[c].reconnectAttempts = 0], c,
            TextFrame(Envelope("connection", b.connectionInfo[c].sessionId,
                               "connected")))

\* tslWs.on('message') as it would be if it sent to every registered client
tslOnMessageBroadcast(b, u, data) ==
  LET cs == {c \in b.activeConnections : ClientOpen(b, c)}
  IN [b EXCEPT !.sent = @ \o [i \in 1..Cardinality(cs) |->
         <<CHOOSE c \in cs : Cardinality({d \in cs : d < c}) = i - 1,
           Forwarded(data)>>]]

\* tslWs.on('message'), the same in both wirings
tslOnMessage(b, u, data) ==
  LET c == b.tsl[u].owner
  IN IF ClientOpen(b, c) THEN wsSend(b, c, Forwarded(data)) ELSE b

\* tslWs.on('error'): only the handler the connection handler attaches
\* reconnects; the one of setupTslWebSocketHandlers logs
tslOnError(b, u) ==
  LET c == b.tsl[u].owner
      info == b.connectionInfo[c]
      n == info.reconnectAttempts + 1
  IN IF b.tsl[u].wired = "reconnect" THEN b
     ELSE IF info.reconnectAttempts < info.maxReconnectAttempts
     THEN [b EXCEPT !.connectionInfo[c].reconnectAttempts = n,
                    !.bridgeTimers.reconnect[c] = @ + 1,
                    !.armed = Append(@, <<"reconnect", c, BridgeReconnectDelay(n)>>)]
     ELSE wsClose(wsSend(b, c, TextFrame(Envelope("error", NULL, NULL))), c)

\* tslWs.on('close')
tslOnClose(b, u) ==
  LET c == b.tsl[u].owner
      info == b.connectionInfo[c]
  IN IF b.tsl[u].wired = "reconnect" THEN b
     ELSE IF info.reconnectAttempts >= info.maxReconnectAttempts
     THEN wsClose(wsSend(b, c, TextFrame(Envelope("connection", NULL,
                                                  "disconnected"))), c)
     ELSE b

\* the callback of the reconnect setTimeout
bridgeReconnectCallback(b, c) ==
  LET old == b.connectionInfo[c].tslWs
      b1 == IF old # 0 THEN tslWsClose(b, old) ELSE b
  IN NewTsl(b1, c, "reconnect")

\* the callback of the heartbeat setInterval
bridgeHeartbeatCallback(b, c) ==
  IF ClientOpen(b, c)
  THEN wsSend(b, c, TextFrame(Envelope("ping", NULL, NULL)))
  ELSE b

\* ws.on('message'): a pong refreshes lastPing (a timestamp nothing reads);
\* whatever JSON.parse throws is caught
wsOnMessage(b, c, frame) == b

\* ws.on('error')
wsOnError(b, c) ==
  IF TslIsOpen(b, c) THEN tslWsClose(b, b.connectionInfo[c].tslWs) ELSE b

\* ws.on('close')
wsOnClose(b, c) ==
  LET b1 == IF b.connectionInfo[c].heartbeatInterval
            THEN [b EXCEPT !.bridgeTimers.heartbeat = @ \ {c}] ELSE b
      b2 == IF TslIsOpen(b1, c)
            THEN tslWsClose(b1, b1.connectionInfo[c].tslWs) ELSE b1
  IN [b2 EXCEPT !.activeConnections = @ \ {c}]

\* the session identifier as the connection handler extracts it
ExtractSessionId(url) == Pop(Split(url))

\* the place of a client for which no connectionInfo was created
NoInfo ==
  [sessionId |-> "", tslWs |-> 0, heartbeatInterval |-> FALSE,
   reconnectAttempts |-> 0, maxReconnectAttempts |-> 0]

\* wsServer.on('connection'); `wired` tells whether the handlers of the
\* client socket were attached (they are not when the handler returns early)
connection(b, url) ==
  LET c == Len(b.clients) + 1
      sessionId == ExtractSessionId(url)
      b0 == [b EXCEPT !.clients = Append(@, [url |-> url, rs |-> "OPEN",
                                             wired |-> sessionId # ""]),
                      !.connectionInfo = Append(@, NoInfo),
                      !.bridgeTimers.reconnect = Append(@, 0)]
  IN IF sessionId = ""
     THEN wsClose(wsSend(b0, c, TextFrame(Envelope("error", NULL, NULL))), c)
     ELSE LET b1 == [b0 EXCEPT
                       !.connectionInfo[c] =
                          [sessionId |-> sessionId, tslWs |-> 0,
                           heartbeatInterval |-> TRUE, reconnectAttempts |-> 0,
                           maxReconnectAttempts |-> BridgeMaxReconnectAttempts],
                       !.activeConnections = @ \cup {c},
                       !.bridgeTimers.heartbeat = @ \cup {c},
                       !.armed = Append(@, <<"heartbeat", c, HEARTBEAT_INTERVAL>>)]
          IN NewTsl(b1, c, "initial")

\* ------------------------------------------------------ relay server steps
BridgeCommit(b, op, c, u, arg) ==
  /\ clients' = b.clients
  /\ connectionInfo' = b.connectionInfo
  /\ activeConnections' = b.activeConnections
  /\ tsl' = b.tsl
  /\ bridgeTimers' = b.bridgeTimers
  /\ bout' = [op |-> op, client |-> c, tsl |-> u, arg |-> arg,
              sent |-> b.sent, lost |-> b.lost, created |-> b.created,
              closed |-> b.closed, armed |-> b.armed]
  /\ UNCHANGED <<vars, retry>>

SetClientReady(b, c, rs) == [b EXCEPT !.clients[c].rs = rs]
SetTslReady(b, u, rs) ==
  [b EXCEPT !.tsl[u].rs = rs, !.tsl[u].wasOpen = (@ \/ rs = "OPEN")]

\* a client socket is accepted
Connection ==
  \E url \in RequestUrls :
    /\ Len(clients) < MaxClients
    /\ BridgeCommit(connection(BridgeFields, url), "connection",
                    Len(clients) + 1, 0, url)

\* --- events of a client socket
ClientMessage ==
  \E c \in 1..Len(clients), frame \in ClientFrames :
    /\ clients[c].rs = "OPEN" /\ clients[c].wired
    /\ BridgeCommit(wsOnMessage(BridgeFields, c, frame), "clientMessage",
                    c, 0, frame)

\* a protocol error on the client socket: the socket starts closing and
\* the error event is emitted
ClientError ==
  \E c \in 1..Len(clients) :
    /\ clients[c].rs = "OPEN" /\ clients[c].wired
    /\ BridgeCommit(wsOnError(SetClientReady(BridgeFields, c, "CLOSING"), c),
                    "clientError", c, 0, NULL)

ClientClose ==
  \E c \in 1..Len(clients) :
    /\ clients[c].rs \in {"OPEN", "CLOSING"}
    /\ LET b == SetClientReady(BridgeFields, c, "CLOSED")
       IN BridgeCommit(IF clients[c].wired THEN wsOnClose(b, c) ELSE b,
                       "clientClose", c, 0, NULL)

\* --- events of an upstream socket.  Every upstream socket keeps the
\* handlers it was wired with.
TslOpen ==
  \E u \in 1..Len(tsl) :
    /\ tsl[u].rs = "CONNECTING"
    /\ BridgeCommit(tslOnOpen(SetTslReady(BridgeFields, u, "OPEN"), u),
                    "tslOpen", tsl[u].owner, u, NULL)

TslMessage ==
  \E u \in 1..Len(tsl), data \in UpstreamData :
    /\ tsl[u].rs = "OPEN"
    /\ BridgeCommit(tslOnMessage(BridgeFields, u, data), "tslMessage",
                    tsl[u].owner, u, data)

\* the handshake fails: an error event and then a close event, in one tick
TslFail ==
  \E u \in 1..Len(tsl) :
    /\ ~tsl[u].wasOpen /\ tsl[u].rs \in {"CONNECTING", "CLOSING"}
    /\ BridgeCommit(tslOnClose(tslOnError(
                      SetTslReady(BridgeFields, u, "CLOSED"), u), u),
                    "tslFail", tsl[u].owner, u, NULL)

\* a protocol error on an open upstream socket: the socket starts closing
\* and the error event is emitted; the close event comes later
TslError ==
  \E u \in 1..Len(tsl) :
    /\ tsl[u].rs = "OPEN"
    /\ BridgeCommit(tslOnError(SetTslReady(BridgeFields, u, "CLOSING"), u),
                    "tslError", tsl[u].owner, u, NULL)

\* an upstream socket that was open has closed: a close event alone
TslClosed ==
  \E u \in 1..Len(tsl) :
    /\ tsl[u].wasOpen /\ tsl[u].rs \in {"OPEN", "CLOSING"}
    /\ BridgeCommit(tslOnClose(SetTslReady(BridgeFields, u, "CLOSED"), u),
                    "tslClose", tsl[u].owner, u, NULL)

\* --- timers of the server
FireBridgeReconnect ==
  \E c \in 1..Len(clients) :
    /\ bridgeTimers.reconnect[c] > 0
    /\ BridgeCommit(bridgeReconnectCallback(
                      [BridgeFields EXCEPT !.bridgeTimers.reconnect[c] = @ - 1],
                      c),
                    "reconnectTimer", c, 0, NULL)

FireBridgeHeartbeat ==
  \E c \in bridgeTimers.heartbeat :
    BridgeCommit(bridgeHeartbeatCallback(BridgeFields, c), "heartbeat",
                 c, 0, NULL)

\* ------------------------------------------------------- retryWithBackoff
\* One invocation of retryWithBackoff(fn, maxRetries, initialDelay) of
\* src/src/services/api.ts, step by step: `pc` is where the async function
\* stands (before a call of fn, in the setTimeout wait, returned, thrown),
\* `outcomes` is what each call of fn did so far and `waits` the delays of
\* the timers it has armed.
DefaultMaxRetries == 3
DefaultInitialDelay == 1000
RetryCounts == 0..MaxRetryCount
RetryDelays == {DefaultInitialDelay, 250}
FnErrors == {"E1", "E2"}
FnValues == {"V1", "V2"}

RetryIdle ==
  [pc |-> "idle", maxRetries |-> 0, initialDelay |-> 0, i |-> 0,
   lastError |-> NULL, outcomes |-> <<>>, waits |-> <<>>, result |-> NULL]

\* the delay as it would be without the doubling
BackoffDelayFlat(r) == r.initialDelay

\* const delay = initialDelay * Math.pow(2, i)
BackoffDelay(r) == r.initialDelay * Pow2(r.i)

\* the loop test `i < maxRetries`: the next call of fn, or `throw lastError`
RetryLoop(r) ==
  IF r.i < r.maxRetries THEN [r EXCEPT !.pc = "call"]
  ELSE [r EXCEPT !.pc = "thrown", !.result = r.lastError]

\* `return await fn()` when fn's promise is fulfilled with v
RetryReturn(r, v) ==
  [r EXCEPT !.pc = "returned", !.result = v,
            !.outcomes = Append(@, <<"ok", v>>)]

\* the catch block when fn throws or its promise is rejected with e
RetryCatch(r, e) ==
  LET r1 == [r EXCEPT !.lastError = e, !.outcomes = Append(@, <<"err", e>>)]
  IN IF r1.i < r1.maxRetries - 1
     THEN [r1 EXCEPT !.pc = "wait", !.waits = Append(@, BackoffDelay(r1))]
     ELSE RetryLoop([r1 EXCEPT !.i = @ + 1])

\* the timer of the wait fires: the loop goes on with i++
RetryResume(r) == RetryLoop([r EXCEPT !.i = @ + 1])

retryWithBackoff(maxRetries, initialDelay) ==
  RetryLoop([RetryIdle EXCEPT !.maxRetries = maxRetries,
                              !.initialDelay = initialDelay])

RetryCall ==
  \E maxRetries \in RetryCounts, initialDelay \in RetryDelays :
    /\ retry.pc = "idle"
    /\ retry' = retryWithBackoff(maxRetries, initialDelay)
    /\ UNCHANGED <<vars, bvars>>

FnResolves ==
  \E v \in FnValues :
    /\ retry.pc = "call"
    /\ retry' = RetryReturn(retry, v)
    /\ UNCHANGED <<vars, bvars>>

FnRejects ==
  \E e \in FnErrors :
    /\ retry.pc = "call"
    /\ retry' = RetryCatch(retry, e)
    /\ UNCHANGED <<vars, bvars>>

RetryTimer ==
  /\ retry.pc = "wait"
  /\ retry' = RetryResume(retry)
  /\ UNCHANGED <<vars, bvars>>

\* ------------------------------------------------------------------- spec
Init ==
  /\ ws = 0
  /\ sockets = <<>>
  /\ messageHandlers = <<>>
  /\ connectionStatusHandlers = <<>>
  /\ heartbeatInterval = FALSE
  /\ connectionTimeout = FALSE
  /\ handlerIdCounter = 0
  /\ connectionState = FALSE
  /\ timingServiceState = FALSE
  /\ lastConnectionStatus = "disconnected"
  /\ currentSessionId = NULL
  /\ reconnectAttempts = 0
  /\ isConnecting = FALSE
  /\ pendingSubscriptions = <<>>
  /\ timers = NoTimers
  /\ out = [op |-> "init", sock |-> 0, arg |-> NULL, ret |-> NULL,
            sent |-> <<>>, notified |-> <<>>, delivered |-> <<>>,
            created |-> <<>>, closed |-> <<>>, armed |-> <<>>,
            caught |-> <<>>, threw |-> FALSE]
  /\ clients = <<>>
  /\ connectionInfo = <<>>
  /\ activeConnections = {}
  /\ tsl = <<>>
  /\ bridgeTimers = [heartbeat |-> {}, reconnect |-> <<>>]
  /\ bout = [op |-> "init", client |-> 0, tsl |-> 0, arg |-> NULL,
             sent |-> <<>>, lost |-> <<>>, created |-> <<>>,
             closed |-> <<>>, armed |-> <<>>]
  /\ retry = RetryIdle

Next ==
  \/ SubscribeToTiming
  \/ OnConnectionStatus
  \/ RemoveHandler
  \/ Disconnect
  \/ SendMessage
  \/ SocketOpen
  \/ SocketFail
  \/ SocketClose
  \/ SocketMessage
  \/ FireReconnect
  \/ FireTimeout
  \/ FireHeartbeat

Spec == Init /\ [][Next]_vars

\* --- the client in a setting where the retry budget can run out: one
\* session, callbacks that never throw, no inbound frames, and room for a
\* third socket and a third subscribe call
BudgetSubscribe ==
  /\ handlerIdCounter < BudgetHandlers
  /\ LET s == subscribeToTiming(Fields, "S1", {})
     IN CommitWithin(BudgetSockets, [s EXCEPT !.timers = Unmark(@)],
                     "subscribeToTiming", 0, "S1",
                     TimingId(s.handlerIdCounter))

BudgetObserve ==
  /\ connectionStatusHandlers = <<>>
  /\ CommitWithin(BudgetSockets,
                  onConnectionStatus(Fields, TokenId(1), {}),
                  "onConnectionStatus", 0, TokenId(1), TokenId(1))

BudgetDisconnect ==
  CommitWithin(BudgetSockets,
               [disconnect(Fields, {}) EXCEPT !.timers = Mark(@)],
               "disconnect", 0, NULL, NULL)

BudgetOpen ==
  \E k \in 1..Len(sockets) :
    /\ sockets[k].rs = "CONNECTING"
    /\ CommitWithin(BudgetSockets,
                    handleOpen(SetReady(Fields, k, "OPEN"), {}),
                    "open", k, NULL, NULL)

BudgetFail ==
  \E k \in 1..Len(sockets) :
    /\ sockets[k].rs # "CLOSED"
    /\ CommitWithin(BudgetSockets,
                    handleClose(handleConnectionError(
                                  SetReady(Fields, k, "CLOSED"), {}), {}),
                    "fail", k, NULL, NULL)

BudgetClose ==
  \E k \in 1..Len(sockets) :
    /\ sockets[k].wasOpen /\ sockets[k].rs \in {"OPEN", "CLOSING"}
    /\ CommitWithin(BudgetSockets,
                    handleClose(SetReady(Fields, k, "CLOSED"), {}),
                    "close", k, NULL, NULL)

BudgetReconnect ==
  \E stale \in BOOLEAN :
    /\ IF stale THEN timers.stale > 0 ELSE timers.reconnect > timers.stale
    /\ LET t == [timers EXCEPT !.reconnect = @ - 1,
                               !.stale = IF stale THEN @ - 1 ELSE @]
       IN CommitWithin(BudgetSockets,
                       ReconnectCallback([Fields EXCEPT !.timers = t], {}),
                       "reconnectTimer", 0, stale, NULL)

BudgetTimeout ==
  /\ timers.timeout
  /\ CommitWithin(BudgetSockets,
                  TimeoutCallback([Fields EXCEPT !.timers.timeout = FALSE]),
                  "connectTimeout", 0, NULL, NULL)

BudgetNext ==
  \/ BudgetSubscribe
  \/ BudgetObserve
  \/ BudgetDisconnect
  \/ BudgetOpen
  \/ BudgetFail
  \/ BudgetClose
  \/ BudgetReconnect
  \/ BudgetTimeout

BudgetSpec == Init /\ [][BudgetNext]_vars

\* --- the client with two status observers, either of which may throw: one
\* session, one subscribe call, the lifecycle events of its sockets and the
\* reconnect timers
ObserverSubscribe ==
  \E T \in Throwers(Observers) :
    /\ handlerIdCounter = 0
    /\ LET s == subscribeToTiming(Fields, "S1", T)
       IN CommitWithin(ObserverSockets, [s EXCEPT !.timers = Unmark(@)],
                       "subscribeToTiming", 0, "S1",
                       IF s.threw THEN NULL ELSE TimingId(s.handlerIdCounter))

ObserverRegister ==
  \E r \in 1..ObserverTokens, throws \in BOOLEAN :
    LET id == TokenId(r)
        s == onConnectionStatus(Fields, id, IF throws THEN {id} ELSE {})
    IN CommitWithin(ObserverSockets, s, "onConnectionStatus", 0, id,
                    IF s.threw THEN NULL ELSE id)

ObserverOpen ==
  \E k \in 1..Len(sockets), T \in Throwers(Observers) :
    /\ sockets[k].rs = "CONNECTING"
    /\ CommitWithin(ObserverSockets,
                    handleOpen(SetReady(Fields, k, "OPEN"), T),
                    "open", k, NULL, NULL)

ObserverFail ==
  \E k \in 1..Len(sockets), T \in Throwers(Observers) :
    /\ sockets[k].rs # "CLOSED"
    /\ LET s1 == handleConnectionError(SetReady(Fields, k, "CLOSED"), T)
           s2 == handleClose([s1 EXCEPT !.threw = FALSE], T)
       IN CommitWithin(ObserverSockets,
                       [s2 EXCEPT !.threw = (s1.threw \/ s2.threw)],
                       "fail", k, NULL, NULL)

ObserverClose ==
  \E k \in 1..Len(sockets), T \in Throwers(Observers) :
    /\ sockets[k].wasOpen /\ sockets[k].rs \in {"OPEN", "CLOSING"}
    /\ CommitWithin(ObserverSockets,
                    handleClose(SetReady(Fields, k, "CLOSED"), T),
                    "close", k, NULL, NULL)

ObserverReconnect ==
  \E T \in Throwers(Observers) :
    /\ timers.reconnect > 0
    /\ CommitWithin(ObserverSockets,
                    ReconnectCallback(
                      [Fields EXCEPT !.timers.reconnect = @ - 1], T),
                    "reconnectTimer", 0, FALSE, NULL)

ObserverNext ==
  \/ ObserverSubscribe
  \/ ObserverRegister
  \/ ObserverOpen
  \/ ObserverFail
  \/ ObserverClose
  \/ ObserverReconnect

ObserverSpec == Init /\ [][ObserverNext]_vars

\* the relay server alone: any number of clients up to MaxClients
BridgeNext ==
  \/ Connection
  \/ ClientMessage
  \/ ClientError
  \/ ClientClose
  \/ TslOpen
  \/ TslMessage
  \/ TslFail
  \/ TslError
  \/ TslClosed
  \/ FireBridgeReconnect
  \/ FireBridgeHeartbeat

BridgeSpec == Init /\ [][BridgeNext]_bvars

\* retryWithBackoff alone.  Every call of fn settles (the HTTP client has a
\* timeout) and every armed timer fires, hence the fairness condition.
RetryNext ==
  \/ RetryCall
  \/ FnResolves
  \/ FnRejects
  \/ RetryTimer

RetrySpec == Init /\ [][RetryNext]_retry /\ WF_retry(RetryNext)

\* ----------------------------------------------------------------- claims
SubscribeFrame(k, sessionId) ==
  <<k, Stringify(Envelope("subscribe", sessionId, NULL))>>

CurrentSocketIs(rs) == ws # 0 /\ sockets[ws].rs = rs

NoEffects(o) ==
  /\ o.sent = <<>> /\ o.notified = <<>> /\ o.delivered = <<>>
  /\ o.created = <<>> /\ o.closed = <<>>

IsFrameOfType(frame, types) == Parses(frame) /\ Parse(frame).type \in types

\* C1: when the socket opens, one subscribe frame is sent for every
\* identifier deferred before the open, in the order the subscriptions were
\* requested (the order of pendingSubscriptions), and pendingSubscriptions
\* is empty afterwards.
C1_PendingFlushedOnOpen ==
  [][(out'.op = "open" /\ ~out'.threw) =>
       /\ out'.sent = [i \in 1..Len(pendingSubscriptions) |->
                         SubscribeFrame(out'.sock, pendingSubscriptions[i])]
       /\ pendingSubscriptions' = <<>>]_vars

\* C2: after an open connection is lost, the n-th reconnect timer is armed
\* with delay 1000 * 2^(n-1), and every reconnect timer that fires while the
\* connection is still lost creates a new socket -- in particular the timer
\* that fires after the first reconnect attempt's socket has failed too (one
\* subscription, its session still set, no observer registered).
ReconnectDelays(armed) == SelectSeq(armed, LAMBDA a : a[1] = "reconnect")

C2_EveryAttemptCreatesSocket ==
  [][/\ \A i \in 1..Len(ReconnectDelays(out'.armed)) :
          ReconnectDelays(out'.armed)[i][2]
            = reconnectDelay * Pow2(reconnectAttempts + i - 1)
     /\ (/\ out'.op = "reconnectTimer"
         /\ ws = 2 /\ CurrentSocketIs("CLOSED")
         /\ sockets[1].wasOpen /\ ~sockets[2].wasOpen
         /\ currentSessionId \in Sessions
         /\ handlerIdCounter = 1 /\ connectionStatusHandlers = <<>>)
        => Len(out'.created) = 1]_vars

\* C3: when the socket of a connect attempt closes without having opened,
\* a retry is armed (unless the budget is used up) and the client is able
\* to start it: no attempt is left marked as in flight.
C3_FailedConnectIsRetried ==
  (/\ out.op = "fail" /\ ~out.threw /\ out.sock = ws
   /\ ~sockets[ws].wasOpen /\ currentSessionId # NULL)
  => /\ out.armed # <<>> \/ reconnectAttempts = maxReconnectAttempts
     /\ ~isConnecting

\* C4: disconnect() leaves no heartbeat or connect-timeout timer armed, and
\* a reconnect timer it found armed, firing before any subscribe, invokes no
\* handler, sends no frame and creates or closes no socket.
C4_LateTimerIsNoOp ==
  /\ out.op = "disconnect" => ~timers.heartbeat /\ ~timers.timeout
  /\ (out.op = "reconnectTimer" /\ out.arg) => NoEffects(out)

\* C5: an event of a socket the service no longer holds does not touch the
\* connection it holds now: connectionState, feed-liveness and the retry
\* budget stay as they are, no observer is notified, no socket is created
\* or closed.
C5_StaleSocketEventsIgnored ==
  [][(out'.op \in {"open", "fail", "close", "message"}
      /\ ws # 0 /\ out'.sock # ws)
     => /\ connectionState' = connectionState
        /\ timingServiceState' = timingServiceState
        /\ reconnectAttempts' = reconnectAttempts
        /\ timers' = timers
        /\ NoEffects(out')]_vars

\* C6: a pong, result or session_update frame sets feed-liveness true; the
\* open event leaves it false, and nothing but an inbound frame sets it.
C6_LivenessIsMessageDriven ==
  [][/\ (out'.op = "message"
         /\ IsFrameOfType(out'.arg, {"pong", "result", "session_update"}))
        => timingServiceState'
     /\ out'.op = "open" => ~timingServiceState'
     /\ (~timingServiceState /\ timingServiceState') => out'.op = "message"]_vars

\* a pong marks the feed live on a socket on which no ping was ever sent:
\* the heartbeat of the only socket was never started
C6_Witness ==
  /\ out.op = "message" /\ IsFrameOfType(out.arg, {"pong"})
  /\ timingServiceState /\ Len(sockets) = 1 /\ ~heartbeatInterval

\* C7: isConnected() is true exactly when the socket held is open and the
\* feed is live.
C7_IsConnectedIffOpenAndLive ==
  isConnected <=> (CurrentSocketIs("OPEN") /\ timingServiceState)

\* C8: removeHandler(id) raises nothing, removes id and only id from both
\* registries, changes nothing else, and a second call changes nothing.
C8_RemoveHandlerIdempotent ==
  [][out'.op = "removeHandler" =>
       /\ ~out'.threw /\ NoEffects(out')
       /\ messageHandlers'
            = SelectSeq(messageHandlers, LAMBDA h : h # out'.arg)
       /\ connectionStatusHandlers'
            = SelectSeq(connectionStatusHandlers, LAMBDA h : h # out'.arg)
       /\ UNCHANGED <<ws, sockets, heartbeatInterval, connectionTimeout,
                      handlerIdCounter, connectionState, timingServiceState,
                      lastConnectionStatus, currentSessionId,
                      reconnectAttempts, isConnecting, pendingSubscriptions,
                      timers>>
       /\ removeHandler(Fields', out'.arg) = Fields']_vars

\* an identifier that is not registered was removed while two message
\* handlers and an observer were registered, with a socket open
C8_Witness ==
  /\ out.op = "removeHandler"
  /\ out.arg \notin Range(messageHandlers) \cup Range(connectionStatusHandlers)
  /\ Len(messageHandlers) = 2 /\ Len(connectionStatusHandlers) = 1
  /\ CurrentSocketIs("OPEN")

\* C9: for an inbound result or session_update frame every registered
\* message handler is invoked once, in order, with the parsed envelope.
C9_EveryHandlerGetsEnvelope ==
  (out.op = "message" /\ IsFrameOfType(out.arg, {"result", "session_update"}))
  => out.delivered = [i \in 1..Len(messageHandlers) |->
                        <<messageHandlers[i], Parse(out.arg)>>]

\* C10: onConnectionStatus calls the new observer, and only it, with the
\* last known status before it returns the identifier; on a service that was
\* never subscribed to that status is 'disconnected'.
C10_ObserverToldCurrentStatus ==
  out.op = "onConnectionStatus" =>
    /\ out.notified = << <<out.arg, lastConnectionStatus>> >>
    /\ out.arg \in Range(connectionStatusHandlers)
    /\ ~out.threw => out.ret = out.arg
    /\ handlerIdCounter = 0 => lastConnectionStatus = "disconnected"

\* an observer registered while the connection is up is told 'connected'
C10_Witness ==
  /\ out.op = "onConnectionStatus" /\ connectionState
  /\ out.notified = << <<out.arg, "connected">> >>

\* C11: subscribeToTiming('global', h) leaves currentSessionId as it was,
\* subscribeToTiming(s, h) for any other identifier sets it to s, and every
\* socket that is created is created for the URL of currentSessionId.
C11_SessionIdDrivesUrl ==
  [][/\ (out'.op = "subscribeToTiming" /\ out'.arg = GLOBAL)
          => currentSessionId' = currentSessionId
     /\ (out'.op = "subscribeToTiming" /\ out'.arg # GLOBAL)
          => currentSessionId' = out'.arg
     /\ \A i \in 1..Len(out'.created) :
          /\ currentSessionId' # NULL
          /\ out'.created[i][2] = getWebSocketUrl(currentSessionId')]_vars

\* a 'global' subscribe made while session S1 is current and the connection
\* is down creates the second socket for S1's URL
C11_Witness ==
  /\ out.op = "subscribeToTiming" /\ out.arg = GLOBAL
  /\ currentSessionId = "S1"
  /\ out.created = << <<2, <<baseUrl, "S1">> >> >>

\* C12: a subscribeToTiming call made while the socket held is open closes
\* no socket, creates none, keeps the socket, and sends exactly one
\* subscribe frame, for the identifier given, on that socket.
C12_SubscribeOnOpenSocket ==
  [][(out'.op = "subscribeToTiming" /\ CurrentSocketIs("OPEN")) =>
       /\ out'.closed = <<>> /\ out'.created = <<>>
       /\ ws' = ws /\ sockets' = sockets
       /\ out'.sent = << SubscribeFrame(ws, out'.arg) >>
       /\ ~out'.threw]_vars

\* the second subscribe, for S2, found the only socket open (it was
\* created for another session) and sent S2's frame on it
C12_Witness ==
  /\ out.op = "subscribeToTiming" /\ out.arg = "S2"
  /\ handlerIdCounter = 2 /\ Len(sockets) = 1 /\ CurrentSocketIs("OPEN")
  /\ currentSessionId = "S2"
  /\ out.sent = << SubscribeFrame(1, "S2") >>

\* C13: a frame that cannot be parsed is dropped: no handler and no observer
\* is called, nothing is sent, no socket is closed or created, no timer is
\* armed, and no field of the service changes.
C13_UnparsableFrameDropped ==
  [][(out'.op = "message" /\ ~Parses(out'.arg)) =>
       /\ NoEffects(out') /\ out'.armed = <<>> /\ ~out'.threw
       /\ UNCHANGED <<ws, sockets, messageHandlers, connectionStatusHandlers,
                      heartbeatInterval, connectionTimeout, handlerIdCounter,
                      connectionState, timingServiceState,
                      lastConnectionStatus, currentSessionId,
                      reconnectAttempts, isConnecting, pendingSubscriptions,
                      timers>>]_vars

\* the frame arrived on a live connection with a handler and an observer
\* registered
C13_Witness ==
  /\ out.op = "message" /\ out.arg = Garbage
  /\ connectionState /\ timingServiceState
  /\ messageHandlers # <<>> /\ connectionStatusHandlers # <<>>

\* ------------------------------------------------- claims on the relay server
TslOf(c) == {u \in 1..Len(tsl) : tsl[u].owner = c}

\* the client asked for a session of its own
HasSession(c) == clients[c].url \in {SessionUrl("42"), SessionUrl("7")}

\* C14: a data frame received from a client's upstream socket while the
\* client socket is open is sent exactly once, to that client and to no
\* other, with the payload it arrived with; and no other step sends a
\* client the payload of an upstream frame.
C14_FrameForwardedVerbatim ==
  /\ (bout.op = "tslMessage" /\ clients[bout.client].rs = "OPEN") =>
       /\ Len(bout.sent) = 1 /\ bout.lost = <<>>
       /\ bout.sent[1][1] = tsl[bout.tsl].owner
       /\ bout.sent[1][2].payload = bout.arg.payload
  /\ bout.op # "tslMessage" =>
       \A i \in 1..Len(bout.sent) :
         \A data \in UpstreamData : bout.sent[i][2].payload # data.payload

\* with two clients connected, the second one's upstream socket -- the one
\* its reconnect created -- delivers a frame
C14_Witness ==
  /\ bout.op = "tslMessage" /\ bout.client = 2
  /\ \A c \in 1..2 : c <= Len(clients) /\ clients[c].rs = "OPEN" /\ clients[c].wired
  /\ tsl[bout.tsl].wired = "reconnect"
  /\ bout.sent = << <<2, Forwarded(bout.arg)>> >>

\* C15: while the retry budget is not used up, an error of a client's
\* upstream socket leaves a reconnect pending for that client, leaves the
\* client socket as it was and sends the client nothing; and the reconnect
\* timer creates an upstream socket for the same session.
C15_UpstreamErrorReconnects ==
  [][/\ (/\ bout'.op \in {"tslFail", "tslError"}
          /\ HasSession(bout'.client)
          /\ connectionInfo[bout'.client].reconnectAttempts
               < connectionInfo[bout'.client].maxReconnectAttempts) =>
          /\ bridgeTimers'.reconnect[bout'.client] > 0
          /\ clients' = clients
          /\ bout'.sent = <<>> /\ bout'.lost = <<>>
     /\ bout'.op = "reconnectTimer" =>
          /\ Len(bout'.created) = 1
          /\ tsl'[bout'.created[1]].owner = bout'.client
          /\ tsl'[bout'.created[1]].url
               = tslWsUrl(connectionInfo[bout'.client].sessionId)]_bvars

\* C16: once a client socket has closed, its heartbeat timer is not armed,
\* none of its upstream sockets is open or connecting, and no step creates
\* an upstream socket for it.
C16_NothingOutlivesClient ==
  \A c \in 1..Len(clients) :
    (HasSession(c) /\ clients[c].rs = "CLOSED") =>
      /\ c \notin bridgeTimers.heartbeat
      /\ \A u \in TslOf(c) : tsl[u].rs \notin {"CONNECTING", "OPEN"}
      /\ bout.client = c => bout.created = <<>>

\* C17: a client whose request path carries no session identifier (the
\* broadcast path /ws/sessions, or a path ending in '/') is sent an error
\* envelope and closed, and gets no upstream socket, no heartbeat timer and
\* no entry in the registry.
C17_NoSessionIdRejected ==
  (bout.op = "connection" /\ bout.arg \in {BroadcastUrl, TrailingSlashUrl}) =>
    /\ bout.sent = << <<bout.client, TextFrame(Envelope("error", NULL, NULL))>> >>
    /\ clients[bout.client].rs \in {"CLOSING", "CLOSED"}
    /\ bout.created = <<>> /\ TslOf(bout.client) = {}
    /\ bout.armed = <<>> /\ bout.client \notin bridgeTimers.heartbeat
    /\ bout.client \notin activeConnections

\* the upstream sockets of client c that are in one of the states `states`
TslIn(c, states) == {u \in TslOf(c) : tsl[u].rs \in states}

\* every upstream socket was created for the session of its own client
OwnSessionOnly ==
  \A u \in 1..Len(tsl) :
    /\ tsl[u].owner \in 1..Len(clients)
    /\ tsl[u].url = tslWsUrl(ExtractSessionId(clients[tsl[u].owner].url))

\* a step of one client changes nothing of client d: its socket, its record,
\* its timers, its registry entry and its upstream sockets stay as they
\* were, and nothing is sent to it
Untouched(d) ==
  /\ clients'[d] = clients[d]
  /\ connectionInfo'[d] = connectionInfo[d]
  /\ bridgeTimers'.reconnect[d] = bridgeTimers.reconnect[d]
  /\ (d \in bridgeTimers'.heartbeat) = (d \in bridgeTimers.heartbeat)
  /\ (d \in activeConnections') = (d \in activeConnections)
  /\ \A u \in 1..Len(tsl) : tsl[u].owner = d => tsl'[u] = tsl[u]
  /\ \A u \in 1..Len(tsl') : u > Len(tsl) => tsl'[u].owner # d
  /\ \A i \in 1..Len(bout'.sent) : bout'.sent[i][1] # d

Isolated == \A d \in 1..Len(clients) : d # bout'.client => Untouched(d)

\* C18 (as stated): every client has at most one upstream socket that is
\* not closed, every upstream socket is for its own client's session, and a
\* step of one client changes nothing of another.
C18_OneUpstreamPerClient ==
  /\ [](/\ \A c \in 1..Len(clients) :
             Cardinality(TslIn(c, {"CONNECTING", "OPEN", "CLOSING"})) <= 1
        /\ OwnSessionOnly)
  /\ [][Isolated]_bvars

\* C18 (amended): every client has at most one upstream socket that is
\* connecting or open (an older one may still be closing), every upstream
\* socket is for its own client's session, and a step of one client changes
\* nothing of another.
C18_OneLiveUpstreamPerClient ==
  /\ [](/\ \A c \in 1..Len(clients) :
             Cardinality(TslIn(c, {"CONNECTING", "OPEN"})) <= 1
        /\ OwnSessionOnly)
  /\ [][Isolated]_bvars

\* the second client's reconnect has created its second upstream socket
\* while its first is still closing and the first client, on another
\* session, has an open upstream socket of its own
C18_Witness ==
  /\ bout.op = "reconnectTimer" /\ bout.client = 2
  /\ Len(clients) = 2
  /\ clients[1].url = SessionUrl("42") /\ clients[2].url = SessionUrl("7")
  /\ TslIn(1, {"OPEN"}) # {}
  /\ TslIn(2, {"CLOSING"}) # {} /\ TslIn(2, {"CONNECTING"}) # {}

\* C19: every upstream socket, the first one or one a reconnect created,
\* follows the reconnect policy: its error, with budget left, increments
\* reconnectAttempts and arms the backoff timer; with the budget used up
\* the client is sent 'disconnected' or 'error' and its socket is closed.
C19_SamePolicyForEveryUpstream ==
  [][(bout'.op \in {"tslFail", "tslError"} /\ HasSession(bout'.client)) =>
       LET c == bout'.client
           info == connectionInfo[c]
       IN IF info.reconnectAttempts < info.maxReconnectAttempts
          THEN /\ connectionInfo'[c].reconnectAttempts
                    = info.reconnectAttempts + 1
               /\ bout'.armed = << <<"reconnect", c,
                     BridgeReconnectDelay(info.reconnectAttempts + 1)>> >>
          ELSE clients'[c].rs # "OPEN"]_bvars

\* C20: with the retry budget used up, an error event notifies the
\* observers of 'error', no reconnect timer creates a socket, and the next
\* subscribeToTiming call for a session creates a new socket.
C20_ExhaustedUntilNextSubscribe ==
  [][/\ (out'.op = "fail" /\ reconnectAttempts = maxReconnectAttempts) =>
          \A i \in 1..Len(connectionStatusHandlers) :
            \E j \in 1..Len(out'.notified) :
              out'.notified[j] = <<connectionStatusHandlers[i], "error">>
     /\ (out'.op = "reconnectTimer"
          /\ reconnectAttempts = maxReconnectAttempts) =>
          out'.created = <<>>
     /\ (/\ out'.op = "subscribeToTiming" /\ out'.arg \in Sessions
          /\ reconnectAttempts = maxReconnectAttempts
          /\ ~CurrentSocketIs("OPEN")) =>
          Len(out'.created) = 1]_vars

\* C21: an observer that throws stops nothing: for an open event of the
\* socket held every observer is told 'connected', isConnecting is cleared,
\* the heartbeat runs and the subscribe frame of the current session is
\* sent; for a result or session_update frame every observer is told
\* 'connected' and every message handler is invoked.
C21_ThrowingObserverIsolated ==
  /\ (out.op = "open" /\ out.sock = ws) =>
       /\ \A h \in Range(connectionStatusHandlers) :
            <<h, "connected">> \in Range(out.notified)
       /\ ~isConnecting
       /\ heartbeatInterval /\ timers.heartbeat
       /\ currentSessionId # NULL =>
            SubscribeFrame(ws, currentSessionId) \in Range(out.sent)
  /\ (out.op = "message" /\ out.sock = ws
      /\ IsFrameOfType(out.arg, {"result", "session_update"})) =>
       /\ \A h \in Range(connectionStatusHandlers) :
            <<h, "connected">> \in Range(out.notified)
       /\ \A h \in Range(messageHandlers) :
            <<h, Parse(out.arg)>> \in Range(out.delivered)

\* C22: when disconnect() returns, the service holds no socket, close() was
\* called once on the socket it held and on no other (on none if it held
\* none), the last known status is 'disconnected' and every observer was
\* told so once, reconnectAttempts is 0, isConnecting is false,
\* pendingSubscriptions is empty, currentSessionId is null and isConnected()
\* is false.
C22_DisconnectTearsDown ==
  [][(out'.op = "disconnect" /\ ~out'.threw) =>
       /\ ws' = 0
       /\ out'.closed = (IF ws # 0 THEN <<ws>> ELSE <<>>)
       /\ out'.created = <<>> /\ out'.sent = <<>>
       /\ lastConnectionStatus' = "disconnected"
       /\ out'.notified = [i \in 1..Len(connectionStatusHandlers) |->
                             <<connectionStatusHandlers[i], "disconnected">>]
       /\ reconnectAttempts' = 0
       /\ ~isConnecting'
       /\ pendingSubscriptions' = <<>>
       /\ currentSessionId' = NULL
       /\ ~isConnected']_vars

\* disconnect() was called on a live connection whose socket, the second
\* one, was opened by a reconnect, with an observer registered
C22_Witness ==
  /\ out.op = "disconnect" /\ ~out.threw
  /\ out.closed = <<2>> /\ sockets[2].wasOpen /\ sockets[2].rs = "CLOSING"
  /\ out.notified # <<>>
  /\ timers.stale > 0

\* C23: after disconnect() both registries are empty: the message handlers
\* and the status observers.
C23_DisconnectClearsRegistries ==
  (out.op = "disconnect" /\ ~out.threw) =>
    /\ messageHandlers = <<>>
    /\ connectionStatusHandlers = <<>>

\* C24: after disconnect(), and once the retry budget is used up, no
\* heartbeat, connect-timeout or reconnect timer is armed.
C24_NoTimerAfterTeardown ==
  ((out.op = "disconnect" /\ ~out.threw)
   \/ reconnectAttempts = maxReconnectAttempts)
  => /\ ~timers.heartbeat
     /\ ~timers.timeout
     /\ timers.reconnect = 0

\* C25: a socket is created only while no connect attempt is in flight, one
\* at a time, by a step that first calls close() on the socket held; the
\* service lets go of a socket only by calling close() on it, and the socket
\* it holds is the last one created.  So every socket but the one held has
\* had close() called on it.
C25_OneSocketAtATime ==
  [][/\ out'.created # <<>> =>
          /\ ~isConnecting
          /\ Len(out'.created) = 1
          /\ ws' = Len(sockets') /\ Len(sockets') = Len(sockets) + 1
          /\ ws # 0 => ws \in Range(out'.closed)
     /\ out'.created = <<>> => Len(sockets') = Len(sockets)
     /\ ws' # ws => (ws # 0 => ws \in Range(out'.closed))
     /\ ws' \in {0, ws, Len(sockets')}]_vars

\* a reconnect timer found an attempt in flight and created nothing, with
\* the first socket closed and the second one still connecting
C25_Witness ==
  /\ out.op = "reconnectTimer" /\ out.created = <<>> /\ out.closed = <<>>
  /\ isConnecting /\ ws = 2 /\ sockets[2].rs = "CONNECTING"
  /\ sockets[1].rs = "CLOSED"

\* C26: once the open socket held has closed or failed, the heartbeat timer
\* is not armed, and a heartbeat callback that runs while the socket held is
\* not open sends nothing.
C26_HeartbeatStopsOnLoss ==
  /\ (out.op \in {"close", "fail"} /\ ~out.threw
      /\ out.sock = ws /\ sockets[ws].wasOpen) => ~timers.heartbeat
  /\ (out.op = "heartbeat" /\ ~CurrentSocketIs("OPEN")) => out.sent = <<>>

\* C28: the failure of the socket held -- an error event and a close event
\* -- takes one unit of the retry budget and arms one reconnect timer.
C28_OneFailureOneUnit ==
  [][(out'.op = "fail" /\ ~out'.threw /\ out'.sock = ws) =>
       /\ reconnectAttempts' <= reconnectAttempts + 1
       /\ Len(ReconnectDelays(out'.armed)) <= 1]_vars

\* C29: subscribeToTiming('global', h) with no current session registers h,
\* records 'global' in pendingSubscriptions and does nothing else: no socket
\* is created or closed, no observer is called, nothing is sent, no timer is
\* armed, isConnecting stays false and the status stays 'disconnected'.
\* While there is no current session, a socket is created only by a
\* subscribe for an identifier other than 'global'.
C29_GlobalAloneDoesNotConnect ==
  [][/\ (/\ out'.op = "subscribeToTiming" /\ out'.arg = GLOBAL
         /\ currentSessionId = NULL) =>
          /\ NoEffects(out') /\ out'.armed = <<>> /\ ~out'.threw
          /\ ~isConnecting' /\ lastConnectionStatus' = "disconnected"
          /\ messageHandlers' = Append(messageHandlers, out'.ret)
          /\ GLOBAL \in Range(pendingSubscriptions')
          /\ UNCHANGED <<ws, sockets, connectionStatusHandlers,
                         connectionState, timingServiceState,
                         currentSessionId, reconnectAttempts>>
     /\ (currentSessionId = NULL /\ out'.created # <<>>) =>
          /\ out'.op = "subscribeToTiming"
          /\ out'.arg # GLOBAL]_vars

\* the first call on a fresh service, with an observer registered, was for
\* 'global'
C29_Witness ==
  /\ out.op = "subscribeToTiming" /\ out.arg = GLOBAL
  /\ sockets = <<>> /\ currentSessionId = NULL
  /\ pendingSubscriptions = <<GLOBAL>>
  /\ messageHandlers = <<TimingId(1)>>
  /\ connectionStatusHandlers # <<>>

\* ------------------------------------------------ claims on retryWithBackoff
Failures(r) == SelectSeq(r.outcomes, LAMBDA o : o[1] = "err")

\* C30: retryWithBackoff calls fn at most maxRetries (3) times and never
\* again after a call that succeeded, whose value it returns; after the k-th
\* failure but the last it waits initialDelay * 2^(k-1) (1000 ms, then
\* 2000 ms); after the last failure it throws that failure's error without
\* waiting; and it always ends, returning or throwing.
C30_RetryWithBackoff ==
  /\ [](LET r == retry
            n == Len(r.outcomes)
        IN /\ n <= r.maxRetries
           /\ \A k \in 1..n : k < n => r.outcomes[k][1] = "err"
           /\ r.waits = [k \in 1..Min(Len(Failures(r)), r.maxRetries - 1) |->
                           r.initialDelay * Pow2(k - 1)]
           /\ r.pc = "returned" <=> (n > 0 /\ r.outcomes[n][1] = "ok")
           /\ r.pc = "returned" => r.result = r.outcomes[n][2]
           /\ (r.pc = "thrown" /\ r.maxRetries > 0) =>
                /\ n = r.maxRetries
                /\ r.result = r.outcomes[n][2]
           /\ (r.maxRetries = DefaultMaxRetries
               /\ r.initialDelay = DefaultInitialDelay) =>
                /\ n <= 3
                /\ r.waits \in {<<>>, <<1000>>, <<1000, 2000>>}
                /\ r.pc = "thrown" => n = 3 /\ r.waits = <<1000, 2000>>)
  /\ <>(retry.pc \in {"returned", "thrown"})

\* with the default arguments, three failures with different errors: the
\* third one's error was thrown after waits of 1000 and 2000 ms
C30_Witness ==
  /\ retry.pc = "thrown"
  /\ retry.maxRetries = DefaultMaxRetries
  /\ retry.initialDelay = DefaultInitialDelay
  /\ retry.outcomes = << <<"err", "E1">>, <<"err", "E1">>, <<"err", "E2">> >>
  /\ retry.waits = <<1000, 2000>>
  /\ retry.result = "E2"

\* every registered observer is called with `status` in the step
AllTold(o, hs, status) ==
  \A i \in 1..Len(hs) : <<hs[i], status>> \in Range(o.notified)

\* C27: every registered observer is told 'connected' on an open event
\* (which sets reconnectAttempts to 0), 'disconnected' on a close event and
\* 'error' on an error event; and the last known status, which is what an
\* observer registered later is told at once, is the status of the most
\* recent notification.
C27_ObserversFollowLifecycle ==
  [][/\ out'.op = "open" =>
          /\ AllTold(out', connectionStatusHandlers, "connected")
          /\ reconnectAttempts' = 0
     /\ out'.op = "close" =>
          AllTold(out', connectionStatusHandlers, "disconnected")
     /\ out'.op = "fail" =>
          /\ AllTold(out', connectionStatusHandlers, "error")
          /\ AllTold(out', connectionStatusHandlers, "disconnected")
     /\ out'.op = "onConnectionStatus" =>
          out'.notified = << <<out'.arg, lastConnectionStatus>> >>
     /\ out'.notified # <<>> =>
          out'.notified[Len(out'.notified)][2] = lastConnectionStatus'
     /\ (lastConnectionStatus' # lastConnectionStatus
         /\ connectionStatusHandlers # <<>>) => out'.notified # <<>>]_vars

====
